---- MODULE Spec2Model ----
(***************************************************************************)
(* A model of the compose-go loading pipeline: the path-matched merge      *)
(* engine (override/merge.go), the ports canonicaliser                     *)
(* (transform/ports.go), the extends resolver (loader/extends.go) and the  *)
(* loader orchestrator (loader.go: cycleTracker, LoadWithContext, load,    *)
(* loadYamlModel, projectName, groupXFieldsIntoExtensions).                *)
(*                                                                         *)
(* A yaml tree (Go `any`) is a tagged record:                              *)
(*   [kind |-> "null"]                 nil                                 *)
(*   [kind |-> "str",  str |-> s]      string                              *)
(*   [kind |-> "int",  int |-> n]      int                                 *)
(*   [kind |-> "bool", bool |-> b]     bool                                *)
(*   [kind |-> "seq",  seq |-> q]      []any                               *)
(*   [kind |-> "map",  map |-> f]      map[string]any, f a function whose  *)
(*                                     domain is the set of keys           *)
(* A tree.Path is the sequence of its segments.                            *)
(***************************************************************************)
EXTENDS Integers, Sequences, FiniteSets, TLC

VARIABLES
    mE, mO, mPath, mResult, mPhase,     \* a call of mergeYaml(e, o, p)
    pData, pResult, pPhase,             \* a call of transformPorts(data, p)
    gDict, gResult, gPhase,             \* a call of groupXFieldsIntoExtensions(dict, p)
    nFiles, nOpts, nEnv, nResult, nPhase,  \* a call of LoadWithContext (project name)
    iIncludes, iStack, iResult,         \* load and its include recursion
    xFiles, xLoaders, xStack, xCt, xLoads, xResult, \* loadYamlModel and its extends recursion
    hInput, hHeap, hServices, hPhase,   \* one extends step on the maps and slices in memory
    ctLoaded, ctCall                    \* a cycleTracker and the last call of its Add

mergeVars == <<mE, mO, mPath, mResult, mPhase>>
portVars  == <<pData, pResult, pPhase>>
groupVars == <<gDict, gResult, gPhase>>
nameVars  == <<nFiles, nOpts, nEnv, nResult, nPhase>>
inclVars  == <<iIncludes, iStack, iResult>>
extVars   == <<xFiles, xLoaders, xStack, xCt, xLoads, xResult>>
heapVars  == <<hInput, hHeap, hServices, hPhase>>
trackVars == <<ctLoaded, ctCall>>

-----------------------------------------------------------------------------
(* Yaml trees *)

Null      == [kind |-> "null"]
MkStr(s)  == [kind |-> "str", str |-> s]
MkInt(n)  == [kind |-> "int", int |-> n]
MkBool(b) == [kind |-> "bool", bool |-> b]
MkSeq(q)  == [kind |-> "seq", seq |-> q]
MkMap(f)  == [kind |-> "map", map |-> f]

EmptyMap  == [k \in {} |-> Null]

IsMap(v) == v.kind = "map"
IsSeq(v) == v.kind = "seq"
IsStr(v) == v.kind = "str"

HasKey(v, k) == IsMap(v) /\ k \in DOMAIN v.map

\* m[k] = v on a Go map
Put(f, k, v) == [x \in DOMAIN f \cup {k} |-> IF x = k THEN v ELSE f[x]]
\* delete(m, k)
Delete(f, k) == [x \in DOMAIN f \ {k} |-> f[x]]

\* strings.HasPrefix
HasPrefix(s, prefix) ==
    Len(s) >= Len(prefix) /\ SubSeq(s, 1, Len(prefix)) = prefix

-----------------------------------------------------------------------------
(* Strings: byte order, fmt verbs *)

\* The characters the model's strings are made of, in ascending byte order.
ByteOrder == " %()-.0123456789:=ABCDEFGHIJKLMNOPQRSTUVWXYZ[]_abcdefghijklmnopqrstuvwxyz"

ByteRank(c) == CHOOSE i \in 1..Len(ByteOrder) : SubSeq(ByteOrder, i, i) = c

RECURSIVE StrLess(_, _)
\* Go's < on strings: lexicographic on bytes
StrLess(a, b) ==
    IF Len(b) = 0 THEN FALSE
    ELSE IF Len(a) = 0 THEN TRUE
    ELSE LET ca == SubSeq(a, 1, 1)
             cb == SubSeq(b, 1, 1)
         IN  IF ca = cb THEN StrLess(SubSeq(a, 2, Len(a)), SubSeq(b, 2, Len(b)))
             ELSE ByteRank(ca) < ByteRank(cb)

RECURSIVE SortStrings(_)
\* the ascending sequence of a set of strings
SortStrings(S) ==
    IF S = {} THEN <<>>
    ELSE LET least == CHOOSE s \in S : \A t \in S \ {s} : StrLess(s, t)
         IN  <<least>> \o SortStrings(S \ {least})

Digits == "0123456789"

RECURSIVE Itoa(_)
\* strconv.Itoa / fmt.Sprint of a non-negative int
Itoa(n) ==
    IF n < 10 THEN SubSeq(Digits, n + 1, n + 1)
    ELSE Itoa(n \div 10) \o SubSeq(Digits, (n % 10) + 1, (n % 10) + 1)

RECURSIVE FormatS(_), JoinFormatted(_, _)
\* fmt.Sprintf("%s", v) for v of type any
FormatS(v) ==
    CASE v.kind = "str"  -> v.str
      [] v.kind = "int"  -> "%!s(int=" \o Itoa(v.int) \o ")"
      [] v.kind = "bool" -> "%!s(bool=" \o (IF v.bool THEN "true" ELSE "false") \o ")"
      [] v.kind = "null" -> "%!s(<nil>)"
      [] v.kind = "seq"  -> "[" \o JoinFormatted([i \in 1..Len(v.seq) |-> FormatS(v.seq[i])], 1) \o "]"
      [] v.kind = "map"  ->
            LET keys == SortStrings(DOMAIN v.map)
            IN  "map[" \o JoinFormatted([i \in 1..Len(keys) |->
                              keys[i] \o ":" \o FormatS(v.map[keys[i]])], 1) \o "]"
JoinFormatted(parts, i) ==
    IF i > Len(parts) THEN ""
    ELSE parts[i] \o (IF i < Len(parts) THEN " " ELSE "") \o JoinFormatted(parts, i + 1)

-----------------------------------------------------------------------------
(* tree.Path *)

NewPath == <<>>

\* p.Next(part)
PathNext(p, part) == Append(p, part)

\* p.Matches(pattern): same number of segments, `*` matches one segment
Matches(p, pattern) ==
    /\ Len(p) = Len(pattern)
    /\ \A i \in 1..Len(p) : pattern[i] \in {"*", p[i]}

-----------------------------------------------------------------------------
(* override/merge.go *)

\* The outcome of a merger. Go ranges over maps in an unspecified order, so
\* when several keys of a mapping fail, the error returned names any one of
\* their paths: `paths` holds every path the error can name, and `panic`
\* tells that a failed type assertion can be reached.
Ok(v)      == [err |-> FALSE, panic |-> FALSE, paths |-> {}, val |-> v]
ErrAt(p)   == [err |-> TRUE, panic |-> FALSE, paths |-> {p}, val |-> Null]
PanicRes   == [err |-> FALSE, panic |-> TRUE, paths |-> {}, val |-> Null]
Succeeded(r) == ~r.err /\ ~r.panic

mergeSpecials == <<
    [pattern |-> <<"services", "*", "logging">>,             merger |-> "mergeLogging"],
    [pattern |-> <<"services", "*", "command">>,             merger |-> "override"],
    [pattern |-> <<"services", "*", "entrypoint">>,          merger |-> "override"],
    [pattern |-> <<"services", "*", "healthcheck", "test">>, merger |-> "override"],
    [pattern |-> <<"services", "*", "environment">>,         merger |-> "mergeEnvironment"],
    [pattern |-> <<"services", "*", "ulimits", "*">>,        merger |-> "mergeUlimit"] >>

\* the merger mergeYaml finds for p ("default" when no pattern matches)
SpecialFor(p) ==
    IF \E i \in 1..Len(mergeSpecials) : Matches(p, mergeSpecials[i].pattern)
    THEN mergeSpecials[CHOOSE i \in 1..Len(mergeSpecials) :
                           Matches(p, mergeSpecials[i].pattern)].merger
    ELSE "default"

override(e, other, p) == Ok(other)

RECURSIVE Spread(_, _, _)
\* the sorted strings, each as often as it occurs
Spread(sorted, count, i) ==
    IF i > Len(sorted) THEN <<>>
    ELSE [j \in 1..count[sorted[i]] |-> sorted[i]] \o Spread(sorted, count, i + 1)

convertIntoSequence(value) ==
    CASE value.kind = "map" ->
            LET entry == [k \in DOMAIN value.map |->
                            IF value.map[k].kind = "null" THEN k
                            ELSE k \o "=" \o FormatS(value.map[k])]
                strs  == {entry[k] : k \in DOMAIN value.map}
                count == [e \in strs |-> Cardinality({k \in DOMAIN value.map : entry[k] = e})]
            IN  Spread(SortStrings(strs), count, 1)
      [] value.kind = "seq" -> value.seq
      [] OTHER -> <<>>

\* seq[i] is a string in the mapping case; entries of a sequence are kept
AsEntries(value) ==
    IF value.kind = "map"
    THEN LET strs == convertIntoSequence(value)
         IN  [i \in 1..Len(strs) |-> MkStr(strs[i])]
    ELSE convertIntoSequence(value)

mergeEnvironment(c, o, p) == Ok(MkSeq(AsEntries(c) \o AsEntries(o)))

RECURSIVE mergeYaml(_, _, _), mergeMappings(_, _, _)

\* mergeMappings without the `x-` test of line 82
mergeMappingsRecursesX(mapping, other, p) ==
    LET sub == [k \in DOMAIN other |->
                  IF k \notin DOMAIN mapping
                  THEN Ok(other[k])
                  ELSE mergeYaml(mapping[k], other[k], PathNext(p, k))]
    IN  IF \E k \in DOMAIN other : sub[k].err \/ sub[k].panic
        THEN [err |-> \E k \in DOMAIN other : sub[k].err,
              panic |-> \E k \in DOMAIN other : sub[k].panic,
              paths |-> UNION {sub[k].paths : k \in DOMAIN other},
              val |-> Null]
        ELSE Ok(MkMap([k \in DOMAIN mapping \cup DOMAIN other |->
                          IF k \in DOMAIN other THEN sub[k].val ELSE mapping[k]]))

\* mapping and other are the key functions of two Go maps; the result's val
\* is the mapping node returned
mergeMappings(mapping, other, p) ==
    LET sub == [k \in DOMAIN other |->
                  IF k \notin DOMAIN mapping \/ HasPrefix(k, "x-")
                  THEN Ok(other[k])
                  ELSE mergeYaml(mapping[k], other[k], PathNext(p, k))]
    IN  IF \E k \in DOMAIN other : sub[k].err \/ sub[k].panic
        THEN [err |-> \E k \in DOMAIN other : sub[k].err,
              panic |-> \E k \in DOMAIN other : sub[k].panic,
              paths |-> UNION {sub[k].paths : k \in DOMAIN other},
              val |-> Null]
        ELSE Ok(MkMap([k \in DOMAIN mapping \cup DOMAIN other |->
                          IF k \in DOMAIN other THEN sub[k].val ELSE mapping[k]]))

mergeLogging(c, o, p) ==
    IF ~IsMap(c) \/ ~IsMap(o) THEN PanicRes
    ELSE LET ok1 == "driver" \in DOMAIN o.map
             ok2 == "driver" \in DOMAIN c.map
         IN  IF ~ok1 \/ ~ok2 THEN mergeMappings(c.map, o.map, p)
             \* == on two interface values holding maps or slices panics
             ELSE IF o.map["driver"].kind = c.map["driver"].kind
                     /\ c.map["driver"].kind \in {"map", "seq"} THEN PanicRes
             ELSE IF o.map["driver"] = c.map["driver"] THEN mergeMappings(c.map, o.map, p)
             ELSE Ok(o)

mergeUlimit(e, o, p) ==
    IF IsMap(o) THEN mergeMappings(o.map, o.map, p) ELSE Ok(o)

mergeYaml(e, o, p) ==
    LET merger == SpecialFor(p)
    IN  CASE merger = "mergeLogging"     -> mergeLogging(e, o, p)
          [] merger = "override"         -> override(e, o, p)
          [] merger = "mergeEnvironment" -> mergeEnvironment(e, o, p)
          [] merger = "mergeUlimit"      -> mergeUlimit(e, o, p)
          [] OTHER ->
                CASE e.kind = "map" ->
                        IF ~IsMap(o) THEN ErrAt(p) ELSE mergeMappings(e.map, o.map, p)
                  [] e.kind = "seq" ->
                        IF ~IsSeq(o) THEN ErrAt(p) ELSE Ok(MkSeq(e.seq \o o.seq))
                  [] OTHER -> Ok(o)

\* Merge(right, left): both are mappings
Merge(right, left) == mergeYaml(right, left, NewPath)

-----------------------------------------------------------------------------
(* transform/ports.go *)

RECURSIVE Atoi(_)
\* the number a string of digits denotes
Atoi(s) ==
    IF Len(s) = 0 THEN 0
    ELSE 10 * Atoi(SubSeq(s, 1, Len(s) - 1))
         + (CHOOSE d \in 0..9 : SubSeq(Digits, d + 1, d + 1) = SubSeq(s, Len(s), Len(s)))

IsDigits(s) ==
    Len(s) > 0 /\ \A i \in 1..Len(s) : \E d \in 1..10 : SubSeq(Digits, d, d) = SubSeq(s, i, i)

\* a types.ServicePortConfig
PortConfig(target, published) ==
    [mode |-> "ingress", target |-> target, published |-> published, protocol |-> "tcp"]

\* types.ParsePortConfig on the short forms of the model: a container port,
\* published:target, a range of container ports; anything else is an error
ParsePortConfig(value) ==
    CASE IsDigits(value)   -> [err |-> FALSE, parsed |-> <<PortConfig(Atoi(value), "")>>]
      [] value = "8080:80" -> [err |-> FALSE, parsed |-> <<PortConfig(80, "8080")>>]
      [] value = "80-81"   -> [err |-> FALSE, parsed |-> <<PortConfig(80, ""), PortConfig(81, "")>>]
      [] OTHER             -> [err |-> TRUE, parsed |-> <<>>]

\* encode(v): the yaml-tagged fields of the struct, empty ones omitted
encode(v) ==
    MkMap([k \in {"mode", "target", "protocol"} \cup (IF v.published = "" THEN {} ELSE {"published"}) |->
              CASE k = "mode"      -> MkStr(v.mode)
                [] k = "target"    -> MkInt(v.target)
                [] k = "protocol"  -> MkStr(v.protocol)
                [] k = "published" -> MkStr(v.published)])

EncodeAll(parsed) == [i \in 1..Len(parsed) |-> encode(parsed[i])]

RECURSIVE portsLoop(_, _, _)

\* the loop of lines 35-69 with an entry of another type left out instead of
\* refused
portsLoopSkipsUnknown(data, i, ports) ==
    IF i > Len(data.seq) THEN [err |-> FALSE, val |-> MkSeq(ports)]
    ELSE LET entry == data.seq[i]
         IN  CASE entry.kind \in {"int", "str"} ->
                    LET r == ParsePortConfig(IF entry.kind = "int" THEN Itoa(entry.int) ELSE entry.str)
                    IN  IF r.err THEN [err |-> TRUE, val |-> data]
                        ELSE portsLoop(data, i + 1, ports \o EncodeAll(r.parsed))
               [] entry.kind = "map" -> portsLoop(data, i + 1, Append(ports, entry))
               [] OTHER -> portsLoop(data, i + 1, ports)

\* the loop of lines 35-69 from entry i on, `ports` holding what was appended
portsLoop(data, i, ports) ==
    IF i > Len(data.seq) THEN [err |-> FALSE, val |-> MkSeq(ports)]
    ELSE LET entry == data.seq[i]
         IN  CASE entry.kind = "int" ->
                    LET r == ParsePortConfig(Itoa(entry.int))
                    IN  IF r.err THEN [err |-> TRUE, val |-> data]
                        ELSE portsLoop(data, i + 1, ports \o EncodeAll(r.parsed))
               [] entry.kind = "str" ->
                    LET r == ParsePortConfig(entry.str)
                    IN  IF r.err THEN [err |-> TRUE, val |-> data]
                        ELSE portsLoop(data, i + 1, ports \o EncodeAll(r.parsed))
               [] entry.kind = "map" -> portsLoop(data, i + 1, Append(ports, entry))
               [] OTHER -> [err |-> TRUE, val |-> data]

transformPorts(data, p) ==
    IF IsSeq(data) THEN portsLoop(data, 1, <<>>)
    ELSE [err |-> TRUE, val |-> data]

-----------------------------------------------------------------------------
(* mergeYaml applied to bounded operands (SpecMerge) *)

Scalars == << Null, MkStr("a"), MkInt(1) >>

Limit(soft, hard) == MkMap([k \in {"soft", "hard"} |-> IF k = "soft" THEN MkInt(soft) ELSE MkInt(hard)])

\* the operands of a merge: scalars, sequences and mappings, nested
MergeOperands == Scalars \o <<
    MkSeq(<<>>),
    MkSeq(<<MkStr("a")>>),
    MkSeq(<<MkStr("b"), MkInt(1)>>),
    MkMap(EmptyMap),
    MkMap([soft |-> MkInt(1)]),
    MkMap([hard |-> MkInt(2)]),
    Limit(3, 4),
    MkMap([soft |-> MkSeq(<<MkInt(1)>>)]),
    MkMap("x-foo" :> MkMap([soft |-> MkInt(1)])),
    MkMap("x-foo" :> MkMap([hard |-> MkInt(2)])),
    MkMap(("x-foo" :> MkMap([soft |-> MkInt(1)])) @@ [soft |-> MkMap([a |-> MkInt(1)]), hard |-> MkInt(7)]),
    MkMap(("x-foo" :> MkMap([hard |-> MkInt(2)])) @@ [soft |-> MkMap([b |-> MkInt(3)])]),
    MkMap([soft |-> MkMap([b |-> MkInt(2)]), hard |-> MkSeq(<<MkInt(5)>>)]),
    MkMap([nofile |-> Limit(1, 2)]),
    MkMap([nofile |-> MkMap([soft |-> MkInt(9)]), nproc |-> MkInt(3)]),
    MkMap([driver |-> MkStr("json"), soft |-> MkInt(1)]),
    MkMap([driver |-> MkStr("syslog"), hard |-> MkInt(2)]),
    MkMap([A |-> MkStr("1"), B |-> MkStr("2")]),
    MkSeq(<<MkStr("B=3"), MkStr("C=4")>>) >>

MergePaths == {
    <<>>,
    <<"volumes">>,
    <<"services", "web">>,
    <<"services", "web", "ulimits">>,
    <<"services", "web", "ulimits", "nofile">>,
    <<"services", "web", "environment">>,
    <<"services", "web", "command">>,
    <<"services", "web", "logging">>,
    <<"services", "web", "healthcheck", "test">>,
    <<"services", "web", "healthcheck", "test", "x">> }

MergeIdle ==
    /\ mE = Null /\ mO = Null /\ mPath = <<>> /\ mResult = Ok(Null) /\ mPhase = "idle"

MergeStart ==
    /\ \E i, j \in 1..Len(MergeOperands) :
          /\ mE = MergeOperands[i]
          /\ mO = MergeOperands[j]
    /\ mPath \in MergePaths
    /\ mResult = Ok(Null)
    /\ mPhase = "call"

\* mergeYaml(e, o, p) returns
DoMergeYaml ==
    /\ mPhase = "call"
    /\ mResult' = mergeYaml(mE, mO, mPath)
    /\ mPhase' = "done"
    /\ UNCHANGED <<mE, mO, mPath, portVars, groupVars, nameVars, inclVars, extVars, heapVars, trackVars>>

-----------------------------------------------------------------------------
(* mergeYaml at services.web.environment (SpecEnvironment) *)

\* `environment` values as the yaml decoder gives them: mappings with string,
\* integer, boolean and empty values, and sequences of strings
EnvOperands == <<
    MkMap([A |-> MkStr("1"), B |-> MkStr("2")]),
    MkSeq(<<MkStr("B=3"), MkStr("C=4")>>),
    MkMap([PORT |-> MkInt(8080)]),
    MkMap([DEBUG |-> MkBool(TRUE), A |-> MkStr("1")]),
    MkMap([B |-> MkStr("3"), A |-> Null]),
    MkMap(EmptyMap),
    MkSeq(<<>>),
    MkSeq(<<MkStr("A=1"), MkStr("B=2")>>),
    MkSeq(<<MkStr("B=2"), MkStr("A=1")>>),
    MkSeq(<<MkStr("PORT=8080")>>),
    MkMap(("A=1" :> Null) @@ [A |-> MkStr("1")]),
    MkMap([C |-> MkStr("4"), B |-> MkStr("2"), A |-> MkStr("1")]) >>

EnvStart ==
    /\ \E i, j \in 1..Len(EnvOperands) :
          /\ mE = EnvOperands[i]
          /\ mO = EnvOperands[j]
    /\ mPath = <<"services", "web", "environment">>
    /\ mResult = Ok(Null)
    /\ mPhase = "call"

-----------------------------------------------------------------------------
(* transformPorts applied to bounded values (SpecPorts) *)

MaxPorts == 3

PortEntries == <<
    MkInt(80),
    MkStr("443"),
    MkStr("8080:80"),
    MkStr("80-81"),
    MkStr("bad"),
    MkMap([target |-> MkInt(53), protocol |-> MkStr("udp")]),
    MkMap([target |-> MkStr("x")]),
    MkBool(TRUE),
    Null >>

NotSequences == << Null, MkStr("80"), MkInt(80), MkMap([target |-> MkInt(80)]) >>

PortsIdle == pData = Null /\ pResult = [err |-> FALSE, val |-> Null] /\ pPhase = "idle"

PortsStart ==
    /\ \/ \E n \in 0..MaxPorts : \E f \in [1..n -> 1..Len(PortEntries)] :
             pData = MkSeq([i \in 1..n |-> PortEntries[f[i]]])
       \/ \E i \in 1..Len(NotSequences) : pData = NotSequences[i]
    /\ pResult = [err |-> FALSE, val |-> Null]
    /\ pPhase = "call"

\* transformPorts(data, p) returns
DoTransformPorts ==
    /\ pPhase = "call"
    /\ pResult' = transformPorts(pData, <<"services", "web", "ports">>)
    /\ pPhase' = "done"
    /\ UNCHANGED <<pData, mergeVars, groupVars, nameVars, inclVars, extVars, heapVars, trackVars>>

-----------------------------------------------------------------------------
(* loader.go: groupXFieldsIntoExtensions *)

userDefinedKeys == << <<"services">>, <<"volumes">>, <<"networks">>, <<"secrets">>, <<"configs">> >>

\* consts.Extensions
Extensions == "extensions"

\* the test of lines 549-555: uk.Matches(p) for some user-defined key
SkipsXFields(p) == \E i \in 1..Len(userDefinedKeys) : Matches(userDefinedKeys[i], p)

RECURSIVE groupXFieldsIntoExtensions(_, _)
\* dict is the key function of the Go map; the result is the key function of
\* the map returned (the same map, changed in place)
groupXFieldsIntoExtensions(dict, p) ==
    LET moved == IF SkipsXFields(p) THEN {}
                 ELSE {key \in DOMAIN dict : HasPrefix(key, "x-")}
        kept  == [key \in DOMAIN dict \ moved |->
                    LET value == dict[key]
                    IN  CASE value.kind = "map" ->
                               MkMap(groupXFieldsIntoExtensions(value.map, PathNext(p, key)))
                          [] value.kind = "seq" ->
                               MkSeq([i \in 1..Len(value.seq) |->
                                   IF IsMap(value.seq[i])
                                   THEN MkMap(groupXFieldsIntoExtensions(
                                                  value.seq[i].map, PathNext(p, Itoa(i - 1))))
                                   ELSE value.seq[i]])
                          [] OTHER -> value]
        extras == [key \in moved |-> dict[key]]
    IN  IF moved # {} THEN Put(kept, Extensions, MkMap(extras)) ELSE kept

-----------------------------------------------------------------------------
(* groupXFieldsIntoExtensions applied to bounded trees (SpecGroup) *)

\* the keys of S that flag f selects
Opt(f, S) == IF f THEN S ELSE {}

\* a compose tree; every flag adds one mapping or one `x-` key
GroupTree(fTop, fSvcX, fWebX, fBuild, fPorts, fVol, fStar, fExt) ==
    LET web == MkMap([k \in {"image"} \cup Opt(fWebX, {"x-bar"}) \cup Opt(fBuild, {"build"})
                            \cup Opt(fPorts, {"ports"}) \cup Opt(fExt, {Extensions}) |->
                  CASE k = "image"    -> MkStr("nginx")
                    [] k = "x-bar"    -> MkMap("x-deep" :> MkInt(1))
                    [] k = "build"    -> MkMap(("x-b" :> MkStr("b")) @@ [context |-> MkStr(".")])
                    [] k = "ports"    -> MkSeq(<< MkMap(("x-p" :> MkInt(2)) @@ [target |-> MkInt(80)]),
                                                  MkStr("80") >>)
                    [] k = Extensions -> MkMap("x-old" :> MkInt(0))])
        services == MkMap([k \in {"web"} \cup Opt(fSvcX, {"x-foo"}) |->
                  IF k = "web" THEN web
                  ELSE MkMap(("x-baz" :> MkInt(3)) @@ [image |-> MkStr("redis")])])
    IN  MkMap([k \in {"services"} \cup Opt(fTop, {"x-top"}) \cup Opt(fVol, {"volumes"})
                     \cup Opt(fStar, {"*"}) |->
                  CASE k = "services" -> services
                    [] k = "x-top"    -> MkMap("x-in" :> MkInt(4))
                    [] k = "volumes"  -> MkMap("x-vol" :> MkMap("x-v" :> MkInt(5)))
                    [] k = "*"        -> MkMap("x-star" :> MkInt(6))])

GroupIdle == gDict = Null /\ gResult = Null /\ gPhase = "idle"

GroupStart ==
    /\ \E fTop, fSvcX, fWebX, fBuild, fPorts, fVol, fStar, fExt \in BOOLEAN :
          gDict = GroupTree(fTop, fSvcX, fWebX, fBuild, fPorts, fVol, fStar, fExt)
    /\ gResult = Null
    /\ gPhase = "call"

\* groupXFieldsIntoExtensions(dict, tree.NewPath()) returns
DoGroupXFields ==
    /\ gPhase = "call"
    /\ gResult' = MkMap(groupXFieldsIntoExtensions(gDict.map, NewPath))
    /\ gPhase' = "done"
    /\ UNCHANGED <<gDict, mergeVars, portVars, nameVars, inclVars, extVars, heapVars, trackVars>>

-----------------------------------------------------------------------------
(* loader.go: NormalizeProjectName, projectName, LoadWithContext *)

UpperCase == "ABCDEFGHIJKLMNOPQRSTUVWXYZ"
LowerCase == "abcdefghijklmnopqrstuvwxyz"

CharIn(c, chars) == \E i \in 1..Len(chars) : SubSeq(chars, i, i) = c

ToLowerChar(c) ==
    IF CharIn(c, UpperCase)
    THEN LET i == CHOOSE j \in 1..Len(UpperCase) : SubSeq(UpperCase, j, j) = c
         IN  SubSeq(LowerCase, i, i)
    ELSE c

RECURSIVE ToLower(_)
\* strings.ToLower
ToLower(s) ==
    IF Len(s) = 0 THEN ""
    ELSE ToLowerChar(SubSeq(s, 1, 1)) \o ToLower(SubSeq(s, 2, Len(s)))

RECURSIVE FindAllJoined(_)
\* strings.Join(r.FindAllString(s, -1), "") for r = [a-z0-9_-]
FindAllJoined(s) ==
    IF Len(s) = 0 THEN ""
    ELSE (IF CharIn(SubSeq(s, 1, 1), LowerCase \o Digits \o "_-") THEN SubSeq(s, 1, 1) ELSE "")
         \o FindAllJoined(SubSeq(s, 2, Len(s)))

RECURSIVE TrimLeft(_, _)
\* strings.TrimLeft(s, cutset)
TrimLeft(s, cutset) ==
    IF Len(s) > 0 /\ CharIn(SubSeq(s, 1, 1), cutset)
    THEN TrimLeft(SubSeq(s, 2, Len(s)), cutset)
    ELSE s

NormalizeProjectName(s) == TrimLeft(FindAllJoined(ToLower(s)), "_-")

\* template.Substitute on the forms of the model: `${N}` is the value of N,
\* or empty when N is unset; a string without `$` is kept
Substitute(s, env) ==
    IF s = "${N}" THEN (IF env.set THEN env.value ELSE "") ELSE s

RECURSIVE Interpolate(_, _)
\* interp.Interpolate: Substitute at every string leaf
Interpolate(v, env) ==
    CASE v.kind = "str" -> MkStr(Substitute(v.str, env))
      [] v.kind = "map" -> MkMap([k \in DOMAIN v.map |-> Interpolate(v.map[k], env)])
      [] v.kind = "seq" -> MkSeq([i \in 1..Len(v.seq) |-> Interpolate(v.seq[i], env)])
      [] OTHER -> v

\* The bytes of a file are modelled by what the yaml decoder makes of them:
\* nothing ("empty": io.EOF), a syntax error ("broken") or a tree ("yaml").
NoContent       == [state |-> "empty", tree |-> Null]
BrokenContent   == [state |-> "broken", tree |-> Null]
YamlContent(t)  == [state |-> "yaml", tree |-> t]

\* ParseYAML(source)
ParseYAML(content) ==
    IF content.state = "yaml" /\ IsMap(content.tree)
    THEN [err |-> FALSE, yml |-> content.tree]
    ELSE [err |-> TRUE, yml |-> Null]

\* the loop of lines 483-503 from file i on; name is pjNameFromConfigFile
RECURSIVE nameFromConfigFiles(_, _, _)
nameFromConfigFiles(files, i, name) ==
    IF i > Len(files) THEN [giveUp |-> FALSE, name |-> name]
    ELSE LET parsed == ParseYAML(files[i].Content)
         IN  IF parsed.err THEN [giveUp |-> TRUE, name |-> ""]
             ELSE IF HasKey(parsed.yml, "name") /\ parsed.yml.map["name"] # MkStr("")
             THEN IF ~IsStr(parsed.yml.map["name"]) THEN [giveUp |-> TRUE, name |-> ""]
                  ELSE nameFromConfigFiles(files, i + 1, parsed.yml.map["name"].str)
             ELSE nameFromConfigFiles(files, i + 1, name)

NameOk(name) == [err |-> "", name |-> name]
NameErr(e)   == [err |-> e, name |-> ""]

\* projectName(details, opts)
projectName(files, opts, env) ==
    LET fromFiles == nameFromConfigFiles(files, 1, "")
        interpolated == IF opts.SkipInterpolation THEN fromFiles.name
                        ELSE Interpolate(MkStr(fromFiles.name), env).str
        pjNameFromConfigFile == NormalizeProjectName(interpolated)
        name == IF ~opts.projectNameImperativelySet /\ pjNameFromConfigFile # ""
                THEN pjNameFromConfigFile
                ELSE opts.projectName
    IN  IF ~opts.projectNameImperativelySet /\ fromFiles.giveUp THEN NameOk("")
        ELSE IF name = "" THEN NameErr("project name must not be empty")
        ELSE IF NormalizeProjectName(name) # name THEN NameErr("invalid project name")
        ELSE NameOk(name)

\* schema.Validate on the trees of the model: `name` must be a string
SchemaValid(cfg) == HasKey(cfg, "name") => IsStr(cfg.map["name"])

\* the tree loadYamlModel reads for a file: its Config, else its Content,
\* else the bytes of the file on disk
FileSource(file) ==
    IF file.Config # Null THEN YamlContent(file.Config)
    ELSE IF file.Content.state = "empty" THEN file.Disk
    ELSE file.Content

\* loadYamlModel's loop over the files (lines 282-354) from file i on, for
\* files without extends
RECURSIVE mergeConfigFiles(_, _, _, _, _)
mergeConfigFiles(files, i, dict, opts, env) ==
    IF i > Len(files) THEN [err |-> "", dict |-> dict]
    ELSE LET source == FileSource(files[i])
         IN  IF source.state = "empty" THEN mergeConfigFiles(files, i + 1, dict, opts, env)
             ELSE IF source.state = "broken" THEN [err |-> "yaml", dict |-> Null]
             ELSE IF ~IsMap(source.tree)
             THEN [err |-> "Top-level object must be a mapping", dict |-> Null]
             ELSE LET cfg == IF opts.SkipInterpolation THEN source.tree
                             ELSE Interpolate(source.tree, env)
                      merged == Merge(dict, cfg)
                  IN  IF ~opts.SkipValidation /\ ~SchemaValid(cfg)
                      THEN [err |-> "validating", dict |-> Null]
                      ELSE IF ~Succeeded(merged) THEN [err |-> "cannot override", dict |-> Null]
                      ELSE mergeConfigFiles(files, i + 1, merged.val, opts, env)

\* load(ctx, configDetails, opts, nil) for files without extends or include:
\* the project gets opts.projectName
load(files, opts, env) ==
    LET model == mergeConfigFiles(files, 1, MkMap(EmptyMap), opts, env)
    IN  IF model.err # "" THEN NameErr(model.err)
        ELSE IF DOMAIN groupXFieldsIntoExtensions(model.dict.map, NewPath) = {}
        THEN NameErr("empty compose file")
        ELSE NameOk(opts.projectName)

\* LoadWithContext(ctx, configDetails, options...)
LoadWithContext(files, opts, env) ==
    IF Len(files) < 1 THEN NameErr("No files specified")
    ELSE LET name == projectName(files, opts, env)
         IN  IF name.err # "" THEN name
             ELSE load(files, [opts EXCEPT !.projectName = name.name], env)

-----------------------------------------------------------------------------
(* LoadWithContext applied to bounded config files and options (SpecName) *)

MaxNameLen == 2

\* the characters of the `name` fields
NameChars == "aB1_- "

RECURSIVE NamesOfLen(_)
NamesOfLen(n) ==
    IF n = 0 THEN {""}
    ELSE {s \o SubSeq(NameChars, i, i) : s \in NamesOfLen(n - 1), i \in 1..Len(NameChars)}

NameStrings == UNION {NamesOfLen(n) : n \in 0..MaxNameLen} \cup {"${N}"}

\* a compose tree with one service and the given `name` node (Null: no name)
ComposeTree(nameNode) ==
    MkMap([k \in {"services"} \cup (IF nameNode = Null THEN {} ELSE {"name"}) |->
              IF k = "name" THEN nameNode
              ELSE MkMap([web |-> MkMap([image |-> MkStr("nginx")])])])

NameNodes(withStrings) ==
    {Null, MkInt(1)} \cup {MkStr(s) : s \in IF withStrings THEN NameStrings ELSE {"first", "Bad Name"}}

\* a types.ConfigFile given by content, by filename only, or pre-parsed
ConfigFileOf(how, tree) ==
    CASE how = "content"  -> [Content |-> YamlContent(tree), Config |-> Null, Disk |-> NoContent]
      [] how = "filename" -> [Content |-> NoContent, Config |-> Null, Disk |-> YamlContent(tree)]
      [] how = "config"   -> [Content |-> NoContent, Config |-> tree, Disk |-> NoContent]
      [] how = "broken"   -> [Content |-> BrokenContent, Config |-> Null, Disk |-> NoContent]

FileKinds == {"content", "filename", "config", "broken"}

NameIdle ==
    /\ nFiles = <<>> /\ nEnv = [set |-> FALSE, value |-> ""]
    /\ nOpts = [projectName |-> "", projectNameImperativelySet |-> FALSE,
                SkipInterpolation |-> FALSE, SkipValidation |-> FALSE]
    /\ nResult = NameOk("") /\ nPhase = "idle"

NameStart ==
    /\ \E how \in FileKinds, node \in NameNodes(TRUE) :
          \/ nFiles = <<ConfigFileOf(how, ComposeTree(node))>>
          \/ \E first \in NameNodes(FALSE) :
                nFiles = <<ConfigFileOf("content", ComposeTree(first)),
                           ConfigFileOf(how, ComposeTree(node))>>
          \/ nFiles = <<>>
    /\ nEnv \in {[set |-> FALSE, value |-> ""], [set |-> TRUE, value |-> "prod"],
                 [set |-> TRUE, value |-> "Pro D"]}
    /\ nOpts \in [projectName : {"", "cli", "CLI"}, projectNameImperativelySet : BOOLEAN,
                  SkipInterpolation : BOOLEAN, SkipValidation : BOOLEAN]
    /\ nResult = NameOk("")
    /\ nPhase = "call"

\* LoadWithContext returns
DoLoadWithContext ==
    /\ nPhase = "call"
    /\ nResult' = LoadWithContext(nFiles, nOpts, nEnv)
    /\ nPhase' = "done"
    /\ UNCHANGED <<nFiles, nOpts, nEnv, mergeVars, portVars, groupVars, inclVars, extVars, heapVars, trackVars>>

-----------------------------------------------------------------------------
(* loader.go: load, loadYamlModel and the include expander *)

\* The files on the current chain of `load` calls, innermost last. A frame
\* holds the main file, the `loaded` list of load (after line 400), the
\* `included` list loadYamlModel hands to ApplyInclude (line 367) and the
\* index of the next entry of the file's `include` sequence.
IncludeFrame(mainFile, loaded) ==
    [mainFile |-> mainFile,
     loaded   |-> Append(loaded, mainFile),
     \* load calls loadYamlModel(..., nil): included = append(nil, mainFile)
     included |-> <<mainFile>>,
     next     |-> 1]

\* lines 394-399: the main file is already in `loaded`
IncludeCycle(mainFile, loaded) == \E i \in 1..Len(loaded) : loaded[i] = mainFile

IncludeCycleErr(mainFile, loaded) ==
    [status |-> "error", err |-> "include cycle detected", chain |-> Append(loaded, mainFile)]

IncludeRunning == [status |-> "running", err |-> "", chain |-> <<>>]
IncludeLoaded  == [status |-> "project", err |-> "", chain |-> <<>>]

IncludeFiles == {"a.yml", "b.yml", "c.yml"}

MaxIncludes == 2
MaxIncludeDepth == 4

RECURSIVE IncludeLists(_)
\* the `include` sequences of at most n entries
IncludeLists(n) ==
    IF n = 0 THEN {<<>>}
    ELSE IncludeLists(n - 1) \cup
         {Append(q, f) : q \in {l \in IncludeLists(n - 1) : Len(l) = n - 1}, f \in IncludeFiles}

IncludeIdle == iIncludes = <<>> /\ iStack = <<>> /\ iResult = IncludeRunning

\* LoadWithContext calls load(ctx, configDetails, opts, nil) on a.yml
IncludeStart ==
    /\ iIncludes \in [IncludeFiles -> IncludeLists(MaxIncludes)]
    /\ iStack = <<IncludeFrame("a.yml", <<>>)>>
    /\ iResult = IncludeRunning

IncludeTop == iStack[Len(iStack)]

\* ApplyInclude reaches an entry: it calls load with the sub-project's file
\* and the `included` list, and load finds the file in the list
LoadFindsCycle ==
    /\ iStack # <<>>
    /\ IncludeTop.next <= Len(iIncludes[IncludeTop.mainFile])
    /\ LET sub == iIncludes[IncludeTop.mainFile][IncludeTop.next]
       IN  /\ IncludeCycle(sub, IncludeTop.included)
           /\ iResult' = IncludeCycleErr(sub, IncludeTop.included)
           /\ iStack' = <<>>
    /\ UNCHANGED <<iIncludes, mergeVars, portVars, groupVars, nameVars, extVars, heapVars, trackVars>>

\* ... or load does not find it and goes on to loadYamlModel
LoadIncluded ==
    /\ iStack # <<>>
    /\ Len(iStack) < MaxIncludeDepth
    /\ IncludeTop.next <= Len(iIncludes[IncludeTop.mainFile])
    /\ LET sub == iIncludes[IncludeTop.mainFile][IncludeTop.next]
       IN  /\ ~IncludeCycle(sub, IncludeTop.included)
           /\ iStack' = Append(iStack, IncludeFrame(sub, IncludeTop.included))
    /\ UNCHANGED <<iIncludes, iResult, mergeVars, portVars, groupVars, nameVars, extVars, heapVars, trackVars>>

\* every entry of the file is expanded: load returns the project
LoadReturns ==
    /\ iStack # <<>>
    /\ IncludeTop.next > Len(iIncludes[IncludeTop.mainFile])
    /\ IF Len(iStack) = 1
       THEN iStack' = <<>> /\ iResult' = IncludeLoaded
       ELSE /\ iStack' = [SubSeq(iStack, 1, Len(iStack) - 1) EXCEPT
                              ![Len(iStack) - 1].next = @ + 1]
            /\ iResult' = iResult
    /\ UNCHANGED <<iIncludes, mergeVars, portVars, groupVars, nameVars, extVars, heapVars, trackVars>>

-----------------------------------------------------------------------------
(* loader.go: cycleTracker; extends.go: ApplyExtends, deepClone *)

\* a serviceRef
ServiceRef(filename, service) == [filename |-> filename, service |-> service]

\* Add without the scan of lines 149-165
cycleTrackerAddAlways(loaded, filename, service) ==
    [err |-> FALSE, lines |-> <<>>, loaded |-> Append(loaded, ServiceRef(filename, service))]

\* ct.Add(filename, service) on the list `loaded`: the error with its lines
\* (the refs named after "Circular reference:"), or the list with the ref appended
cycleTrackerAdd(loaded, filename, service) ==
    LET toAdd == ServiceRef(filename, service)
    IN  IF \E i \in 1..Len(loaded) : loaded[i] = toAdd
        THEN [err |-> TRUE,
              lines |-> <<loaded[1]>> \o Append(SubSeq(loaded, 2, Len(loaded)), toAdd),
              loaded |-> loaded]
        ELSE [err |-> FALSE, lines |-> <<>>, loaded |-> Append(loaded, toAdd)]

RECURSIVE deepClone(_)
deepClone(value) ==
    CASE value.kind = "seq" -> MkSeq([i \in 1..Len(value.seq) |-> deepClone(value.seq[i])])
      [] value.kind = "map" -> MkMap([k \in DOMAIN value.map |-> deepClone(value.map[k])])
      [] OTHER -> value

\* override.ExtendService(base, override): the merge rooted at a service
ExtendService(base, over) == mergeYaml(base, over, <<"services", "x">>)

\* lines 48-54: the service and the file an `extends` value names
ExtendsRef(x) ==
    CASE x.kind = "map" -> [ref  |-> x.map["service"].str,
                            file |-> IF "file" \in DOMAIN x.map THEN x.map["file"] ELSE Null]
      [] x.kind = "str" -> [ref |-> x.str, file |-> Null]
      [] OTHER          -> [ref |-> "", file |-> Null]

\* lines 103-116 without the delete of line 115
extendFromKeepsExtends(base, service) ==
    ExtendService(deepClone(base), service)

\* lines 103-116: the service that replaces services[name], or the error
extendFrom(base, service) ==
    LET merged == ExtendService(deepClone(base), service)
    IN  IF Succeeded(merged) THEN Ok(MkMap(Delete(merged.val.map, "extends"))) ELSE merged

\* The file system and the resource loaders.
WorkingDir == "/w"

\* localResourceLoader.abs
Abs(path) == IF HasPrefix(path, "/") THEN path ELSE WorkingDir \o "/" \o path

\* os.Stat succeeds
FileExists(files, filename) == Abs(filename) \in DOMAIN files

\* the documents of a file (os.ReadFile and the yaml decoder)
Documents(files, filename) == files[Abs(filename)]

localResourceLoader == [local |-> TRUE, accepts |-> {}, target |-> ""]
\* a user-supplied loader: it accepts the paths of `accepts` and its Load
\* returns the local copy `target`
UserLoader(accepts, target) == [local |-> FALSE, accepts |-> accepts, target |-> target]

Accept(loader, files, path) ==
    IF loader.local THEN FileExists(files, path) ELSE path \in loader.accepts

LoaderLoad(loader, path) == IF loader.local THEN Abs(path) ELSE loader.target

\* A frame of loadYamlModel: the config files, the position of the document
\* being processed, the accumulator `dict`, the document `cfg` ApplyExtends
\* works on, the services its range loop has not visited yet, and, while the
\* loop over the resource loaders runs for service `name`, the loop's state.
ModelFrame(configFiles) ==
    [files |-> configFiles, fileIdx |-> 1, docIdx |-> 1, phase |-> "next",
     dict |-> MkMap(EmptyMap), cfg |-> Null, pending |-> {},
     name |-> "", ref |-> "", path |-> "", loader |-> 1, base |-> Null]

Top == xStack[Len(xStack)]
SetTop(frame) == [xStack EXCEPT ![Len(xStack)] = frame]

Running      == [status |-> "running"]
Failed(e)    == [status |-> "error", err |-> e]
Loaded(dict) == [status |-> "loaded", dict |-> dict]

\* an error return unwinds every frame
Fail(e) == xStack' = <<>> /\ xResult' = Failed(e)

CircularReference(lines) == [kind |-> "Circular reference", lines |-> lines]
OtherError(kind) == [kind |-> kind, lines |-> <<>>]

\* ctx.Value(consts.ComposeFileKey{}): the file of the frame being read
CurrentFile(frame) == frame.files[frame.fileIdx]

ServicesOf(cfg) == cfg.map["services"].map

\* loadYamlModel takes the next document of its files (lines 282-348) and
\* ApplyExtends starts on it (lines 30-35)
NextDocument ==
    /\ xStack # <<>> /\ Top.phase = "next"
    /\ Top.fileIdx <= Len(Top.files)
    /\ IF ~FileExists(xFiles, CurrentFile(Top))
       THEN Fail(OtherError("no such file")) /\ UNCHANGED <<xCt, xLoads>>
       ELSE LET docs == Documents(xFiles, CurrentFile(Top))
            IN  /\ IF Top.docIdx > Len(docs)
                   THEN xStack' = SetTop([Top EXCEPT !.fileIdx = @ + 1, !.docIdx = 1])
                   ELSE LET cfg == docs[Top.docIdx]
                        IN  xStack' = SetTop(
                              IF HasKey(cfg, "services")
                              THEN [Top EXCEPT !.cfg = cfg, !.phase = "apply",
                                               !.pending = DOMAIN ServicesOf(cfg)]
                              ELSE [Top EXCEPT !.cfg = cfg, !.phase = "applied"])
                /\ UNCHANGED <<xCt, xLoads, xResult>>
    /\ UNCHANGED <<xFiles, xLoaders, mergeVars, portVars, groupVars, nameVars, inclVars, heapVars, trackVars>>

\* one iteration of the range loop of ApplyExtends (lines 35-117) for a
\* service without extends, with a base in the same file, or up to the loop
\* over the resource loaders
VisitService ==
    /\ xStack # <<>> /\ Top.phase = "apply"
    /\ \E name \in Top.pending :
          LET services == ServicesOf(Top.cfg)
              service  == services[name]
              visited  == [Top EXCEPT !.pending = @ \ {name}]
          IN  IF "extends" \notin DOMAIN service.map
              THEN xStack' = SetTop(visited) /\ UNCHANGED <<xCt, xResult>>
              ELSE LET added == cycleTrackerAdd(xCt, CurrentFile(Top), name)
                       x     == ExtendsRef(service.map["extends"])
                   IN  IF added.err
                       THEN Fail(CircularReference(added.lines)) /\ UNCHANGED xCt
                       ELSE /\ xCt' = added.loaded
                            /\ IF x.file # Null
                               THEN /\ xStack' = SetTop([visited EXCEPT
                                          !.phase = "loaders", !.name = name, !.ref = x.ref,
                                          !.path = x.file.str, !.loader = 1, !.base = Null])
                                    /\ UNCHANGED xResult
                               ELSE IF x.ref \notin DOMAIN services
                               THEN Fail(OtherError("service not found"))
                               ELSE LET merged == extendFrom(services[x.ref], service)
                                    IN  IF ~Succeeded(merged)
                                        THEN Fail(OtherError("cannot override"))
                                        ELSE /\ xStack' = SetTop([visited EXCEPT
                                                   !.cfg.map["services"].map[name] = merged.val])
                                             /\ UNCHANGED xResult
    /\ UNCHANGED <<xFiles, xLoaders, xLoads, mergeVars, portVars, groupVars, nameVars, inclVars, heapVars, trackVars>>

\* bound on the nesting of loadYamlModel calls
MaxExtendsDepth == 4

\* line 60: the loader does not accept the path
LoaderDeclines ==
    /\ xStack # <<>> /\ Top.phase = "loaders"
    /\ Top.loader <= Len(xLoaders)
    /\ ~Accept(xLoaders[Top.loader], xFiles, Top.path)
    /\ xStack' = SetTop([Top EXCEPT !.loader = @ + 1])
    /\ UNCHANGED <<xFiles, xLoaders, xCt, xLoads, xResult,
                   mergeVars, portVars, groupVars, nameVars, inclVars, heapVars, trackVars>>

\* lines 63-84: the loader accepts the path, Load returns the local file and
\* loadYamlModel is called on it with the same cycle tracker
LoaderLoads ==
    /\ xStack # <<>> /\ Top.phase = "loaders"
    /\ Top.loader <= Len(xLoaders)
    /\ Len(xStack) < MaxExtendsDepth
    /\ Accept(xLoaders[Top.loader], xFiles, Top.path)
    /\ LET local == LoaderLoad(xLoaders[Top.loader], Top.path)
       IN  /\ xLoads' = Append(xLoads, [file |-> CurrentFile(Top), service |-> Top.name,
                                        depth |-> Len(xStack), path |-> Top.path,
                                        loader |-> Top.loader, local |-> local])
           /\ xStack' = Append(xStack, ModelFrame(<<local>>))
    /\ UNCHANGED <<xFiles, xLoaders, xCt, xResult,
                   mergeVars, portVars, groupVars, nameVars, inclVars, heapVars, trackVars>>

\* what loadYamlModel returns after its loop (lines 356-389); the trees of
\* the model hold no field that unicity, canonical form or path resolution change
ModelOf(frame) == MkMap(groupXFieldsIntoExtensions(frame.dict.map, NewPath))

\* lines 85-92: the nested loadYamlModel returns and the base is looked up
\* in its services
BaseLoaded ==
    /\ Len(xStack) > 1 /\ Top.phase = "next"
    /\ Top.fileIdx > Len(Top.files)
    /\ LET source == ModelOf(Top)
           caller == xStack[Len(xStack) - 1]
       IN  IF ~HasKey(source, "services")
           THEN Fail(OtherError("panic: interface conversion"))
           ELSE IF caller.ref \notin DOMAIN ServicesOf(source)
           THEN Fail(OtherError("service not found"))
           ELSE /\ xStack' = [SubSeq(xStack, 1, Len(xStack) - 1) EXCEPT
                                 ![Len(xStack) - 1].base = ServicesOf(source)[caller.ref],
                                 ![Len(xStack) - 1].loader = @ + 1]
                /\ UNCHANGED xResult
    /\ UNCHANGED <<xFiles, xLoaders, xCt, xLoads,
                   mergeVars, portVars, groupVars, nameVars, inclVars, heapVars, trackVars>>

\* lines 94-116 after the loop over the loaders: no base, or the merge
LoadersDone ==
    /\ xStack # <<>> /\ Top.phase = "loaders"
    /\ Top.loader > Len(xLoaders)
    /\ IF Top.base = Null
       THEN Fail(OtherError("cannot read"))
       ELSE LET merged == extendFrom(Top.base, ServicesOf(Top.cfg)[Top.name])
            IN  IF ~Succeeded(merged)
                THEN Fail(OtherError("cannot override"))
                ELSE /\ xStack' = SetTop([Top EXCEPT
                           !.phase = "apply",
                           !.cfg.map["services"].map[Top.name] = merged.val])
                     /\ UNCHANGED xResult
    /\ UNCHANGED <<xFiles, xLoaders, xCt, xLoads,
                   mergeVars, portVars, groupVars, nameVars, inclVars, heapVars, trackVars>>

\* lines 118-119: the range loop is over and ApplyExtends returns nil
ApplyExtendsReturns ==
    /\ xStack # <<>> /\ Top.phase = "apply"
    /\ Top.pending = {}
    /\ xStack' = SetTop([Top EXCEPT !.phase = "applied"])
    /\ UNCHANGED <<xFiles, xLoaders, xCt, xLoads, xResult,
                   mergeVars, portVars, groupVars, nameVars, inclVars, heapVars, trackVars>>

\* lines 324-332: the document is merged into the accumulator
MergeDocument ==
    /\ xStack # <<>> /\ Top.phase = "applied"
    /\ LET merged == Merge(Top.dict, Top.cfg)
       IN  IF ~Succeeded(merged)
           THEN Fail(OtherError("cannot override"))
           ELSE /\ xStack' = SetTop([Top EXCEPT !.dict = merged.val, !.cfg = Null,
                                                !.docIdx = @ + 1, !.phase = "next"])
                /\ UNCHANGED xResult
    /\ UNCHANGED <<xFiles, xLoaders, xCt, xLoads,
                   mergeVars, portVars, groupVars, nameVars, inclVars, heapVars, trackVars>>

\* the outermost loadYamlModel returns its tree
LoadYamlModelReturns ==
    /\ Len(xStack) = 1 /\ Top.phase = "next"
    /\ Top.fileIdx > Len(Top.files)
    /\ xResult' = Loaded(ModelOf(Top))
    /\ xStack' = <<>>
    /\ UNCHANGED <<xFiles, xLoaders, xCt, xLoads,
                   mergeVars, portVars, groupVars, nameVars, inclVars, heapVars, trackVars>>

-----------------------------------------------------------------------------
(* loadYamlModel on bounded files, services and loaders (SpecExtends) *)

\* a service with its own image and label, and the given `extends` (Null: none)
Service(name, extends) ==
    MkMap([k \in {"image", "labels"} \cup (IF extends = Null THEN {} ELSE {"extends"}) |->
              CASE k = "image"   -> MkStr("image-" \o name)
                [] k = "labels"  -> MkMap(name :> MkStr("yes"))
                [] k = "extends" -> extends])

ExtendsFile(service, file) == MkMap([service |-> MkStr(service), file |-> MkStr(file)])

\* the `extends` of the services of compose.yml
MainExtends == <<
    Null,
    MkStr("a"),
    MkStr("b"),
    MkStr("c"),
    MkMap([service |-> MkStr("b")]),
    ExtendsFile("x", "base.yml"),
    ExtendsFile("y", "base.yml"),
    MkStr("nope") >>

\* the `extends` of the services of base.yml
BaseExtends == <<
    Null,
    MkStr("y"),
    MkStr("x"),
    ExtendsFile("a", "compose.yml"),
    ExtendsFile("x", "base.yml") >>

ServicesDoc(names, extends) ==
    MkMap([k \in {"services"} |-> MkMap([n \in names |-> Service(n, extends[n])])])

\* opts.ResourceLoaders: the built-in local loader last (LoadWithContext,
\* line 258), after no user loader, one that accepts nothing of the model,
\* or one that has its own copy of base.yml
LoaderLists == <<
    <<localResourceLoader>>,
    <<UserLoader({"oci://base"}, "/cache/other.yml"), localResourceLoader>>,
    <<UserLoader({"base.yml"}, "/cache/base.yml"), localResourceLoader>> >>

\* the files of a load: compose.yml with a, b and c (ec = 0: no c) and,
\* when twoDocs, a second document with a again; base.yml with x and y; the
\* user loader's copy of base.yml
ExtendsFiles(ea, eb, ec, ex, ey, twoDocs) ==
    LET main == [n \in {"a", "b"} \cup (IF ec = 0 THEN {} ELSE {"c"}) |->
                    CASE n = "a" -> MainExtends[ea]
                      [] n = "b" -> MainExtends[eb]
                      [] n = "c" -> MainExtends[ec]]
        base == [n \in {"x", "y"} |-> IF n = "x" THEN BaseExtends[ex] ELSE BaseExtends[ey]]
    IN  [f \in {"/w/compose.yml", "/w/base.yml", "/cache/base.yml"} |->
            CASE f = "/w/compose.yml" ->
                   <<ServicesDoc(DOMAIN main, main)>>
                   \o (IF twoDocs THEN <<ServicesDoc({"a"}, main)>> ELSE <<>>)
              [] f = "/w/base.yml" -> <<ServicesDoc({"x", "y"}, base)>>
              [] f = "/cache/base.yml" ->
                   <<ServicesDoc({"x", "y"}, [n \in {"x", "y"} |-> Null])>>]

ExtendsStart ==
    /\ \E ea \in 1..Len(MainExtends), eb \in {1, 2, 3, 4, 6}, ec \in {0, 1, 2},
          ex \in 1..Len(BaseExtends), ey \in {1, 3}, twoDocs \in BOOLEAN :
          xFiles = ExtendsFiles(ea, eb, ec, ex, ey, twoDocs)
    /\ \E l \in 1..Len(LoaderLists) : xLoaders = LoaderLists[l]
    /\ xStack = <<ModelFrame(<<"compose.yml">>)>>
    /\ xCt = <<>>
    /\ xLoads = <<>>
    /\ xResult = Running

\* the loads whose extends go through base.yml
CrossFileStart ==
    /\ \E ea \in {1, 3, 6, 7}, eb \in {1, 6}, ex \in 1..Len(BaseExtends), ey \in {1, 3},
          twoDocs \in BOOLEAN :
          xFiles = ExtendsFiles(ea, eb, 0, ex, ey, twoDocs)
    /\ \E l \in {1, 3} : xLoaders = LoaderLists[l]
    /\ xStack = <<ModelFrame(<<"compose.yml">>)>>
    /\ xCt = <<>>
    /\ xLoads = <<>>
    /\ xResult = Running

ExtendsIdle ==
    /\ xFiles = <<>> /\ xLoaders = <<>> /\ xStack = <<>> /\ xCt = <<>> /\ xLoads = <<>>
    /\ xResult = Running

-----------------------------------------------------------------------------
(* The maps and slices of Go in memory: extends.go and merge.go by reference *)

\* A value of type any is a scalar or a reference to a map or to the backing
\* array of a slice; the heap is the sequence of the nodes allocated so far.
Ref(addr) == [kind |-> "ref", addr |-> addr]
IsRef(v) == v.kind = "ref"
IsMapRef(h, v) == IsRef(v) /\ h[v.addr].kind = "map"
IsSeqRef(h, v) == IsRef(v) /\ h[v.addr].kind = "seq"

\* make(map[string]any) / make([]any, n) filled with the given content
Alloc(h, node) == [h |-> Append(h, node), val |-> Ref(Len(h) + 1)]

\* the node with the same shape as `node` and the values `vals`, which are
\* in the order of the sorted keys for a map
Reshape(node, vals) ==
    IF node.kind = "seq" THEN [kind |-> "seq", seq |-> vals]
    ELSE LET keys == SortStrings(DOMAIN node.map)
         IN  [kind |-> "map",
              map |-> [k \in DOMAIN node.map |->
                          vals[CHOOSE i \in 1..Len(keys) : keys[i] = k]]]

\* the values a node holds, a map's in the order of its sorted keys
Children(node) ==
    IF node.kind = "seq" THEN node.seq
    ELSE LET keys == SortStrings(DOMAIN node.map)
         IN  [i \in 1..Len(keys) |-> node.map[keys[i]]]

RECURSIVE Store(_, _), StoreAll(_, _, _)
\* the yaml decoder builds a tree of fresh maps and slices
Store(h, tree) ==
    IF tree.kind \in {"seq", "map"}
    THEN LET r == StoreAll(h, Children(tree), 1)
         IN  Alloc(r.h, Reshape(tree, r.vals))
    ELSE [h |-> h, val |-> tree]
StoreAll(h, trees, i) ==
    IF i > Len(trees) THEN [h |-> h, vals |-> <<>>]
    ELSE LET first == Store(h, trees[i])
             rest  == StoreAll(first.h, trees, i + 1)
         IN  [h |-> rest.h, vals |-> <<first.val>> \o rest.vals]

RECURSIVE ValueAt(_, _)
\* the yaml tree a value denotes
ValueAt(h, v) ==
    IF ~IsRef(v) THEN v
    ELSE IF h[v.addr].kind = "seq"
    THEN MkSeq([i \in 1..Len(h[v.addr].seq) |-> ValueAt(h, h[v.addr].seq[i])])
    ELSE MkMap([k \in DOMAIN h[v.addr].map |-> ValueAt(h, h[v.addr].map[k])])

RECURSIVE deepCloneOnHeap(_, _), CloneAll(_, _, _)

\* deepClone that returns its argument
deepCloneShares(h, value) == [h |-> h, val |-> value]

\* deepClone (extends.go:122-139)
deepCloneOnHeap(h, value) ==
    IF IsRef(value)
    THEN LET r == CloneAll(h, Children(h[value.addr]), 1)
         IN  Alloc(r.h, Reshape(h[value.addr], r.vals))
    ELSE [h |-> h, val |-> value]
CloneAll(h, vals, i) ==
    IF i > Len(vals) THEN [h |-> h, vals |-> <<>>]
    ELSE LET first == deepCloneOnHeap(h, vals[i])
             rest  == CloneAll(first.h, vals, i + 1)
         IN  [h |-> rest.h, vals |-> <<first.val>> \o rest.vals]

\* The outcome of a merger on the heap: the heap after it, the value
\* returned, and whether it failed (an error or a panic)
Done(h, v) == [h |-> h, val |-> v, err |-> FALSE]
Failure(h) == [h |-> h, val |-> Null, err |-> TRUE]

\* mapping[k] = v
SetKey(h, mapping, k, v) == [h EXCEPT ![mapping.addr].map = Put(@, k, v)]

\* append(value, other...): the slice itself when nothing is appended, a new
\* backing array otherwise (cap = len for the slices deepClone makes)
AppendOnHeap(h, value, vals, other) ==
    IF IsRef(value) /\ other = <<>> THEN Done(h, value)
    ELSE LET a == Alloc(h, [kind |-> "seq", seq |-> vals \o other])
         IN  Done(a.h, a.val)

RECURSIVE mergeYamlOnHeap(_, _, _, _), MergeKeys(_, _, _, _, _, _)

\* the range loop of mergeMappings (merge.go:80-92) from the i-th key on
MergeKeys(h, mapping, other, keys, i, p) ==
    IF i > Len(keys) THEN Done(h, mapping)
    ELSE LET k == keys[i]
             v == h[other.addr].map[k]
         IN  IF k \notin DOMAIN h[mapping.addr].map \/ HasPrefix(k, "x-")
             THEN MergeKeys(SetKey(h, mapping, k, v), mapping, other, keys, i + 1, p)
             ELSE LET r == mergeYamlOnHeap(h, h[mapping.addr].map[k], v, PathNext(p, k))
                  IN  IF r.err THEN r
                      ELSE MergeKeys(SetKey(r.h, mapping, k, r.val), mapping, other,
                                     keys, i + 1, p)

mergeMappingsOnHeap(h, mapping, other, p) ==
    MergeKeys(h, mapping, other, SortStrings(DOMAIN h[other.addr].map), 1, p)

mergeLoggingOnHeap(h, c, o, p) ==
    IF ~IsMapRef(h, c) \/ ~IsMapRef(h, o) THEN Failure(h)
    ELSE LET config == h[c.addr].map
             other  == h[o.addr].map
         IN  IF "driver" \notin DOMAIN other \/ "driver" \notin DOMAIN config
             THEN mergeMappingsOnHeap(h, c, o, p)
             ELSE IF IsRef(other["driver"]) /\ IsRef(config["driver"])
                     /\ h[other["driver"].addr].kind = h[config["driver"].addr].kind
             THEN Failure(h)
             ELSE IF other["driver"] = config["driver"]
             THEN mergeMappingsOnHeap(h, c, o, p)
             ELSE Done(h, o)

\* convertIntoSequence: a sequence's own elements, a mapping's entries
EntriesOnHeap(h, value) ==
    IF IsSeqRef(h, value) THEN h[value.addr].seq
    ELSE IF IsMapRef(h, value) THEN AsEntries(ValueAt(h, value))
    ELSE <<>>

mergeEnvironmentOnHeap(h, c, o, p) ==
    AppendOnHeap(h, IF IsSeqRef(h, c) THEN c ELSE Null,
                 EntriesOnHeap(h, c), EntriesOnHeap(h, o))

mergeUlimitOnHeap(h, e, o, p) ==
    IF IsMapRef(h, o) THEN mergeMappingsOnHeap(h, o, o, p) ELSE Done(h, o)

mergeYamlOnHeap(h, e, o, p) ==
    LET merger == SpecialFor(p)
    IN  CASE merger = "mergeLogging"     -> mergeLoggingOnHeap(h, e, o, p)
          [] merger = "override"         -> Done(h, o)
          [] merger = "mergeEnvironment" -> mergeEnvironmentOnHeap(h, e, o, p)
          [] merger = "mergeUlimit"      -> mergeUlimitOnHeap(h, e, o, p)
          [] OTHER ->
                IF IsMapRef(h, e)
                THEN IF ~IsMapRef(h, o) THEN Failure(h) ELSE mergeMappingsOnHeap(h, e, o, p)
                ELSE IF IsSeqRef(h, e)
                THEN IF ~IsSeqRef(h, o) THEN Failure(h)
                     ELSE AppendOnHeap(h, e, h[e.addr].seq, h[o.addr].seq)
                ELSE Done(h, o)

\* override.ExtendService on the heap: the merge rooted at a service
ExtendServiceOnHeap(h, base, over) == mergeYamlOnHeap(h, base, over, <<"services", "x">>)

-----------------------------------------------------------------------------
(* One extends step and a later merge, on the heap (SpecAlias) *)

ServiceBodies == <<
    MkMap([image |-> MkStr("a")]),
    MkMap([labels |-> MkMap([k |-> MkStr("1")]), environment |-> MkSeq(<<MkStr("A=1")>>)]),
    MkMap([environment |-> MkMap([B |-> MkStr("2")]),
           ulimits |-> MkMap([nofile |-> MkMap([soft |-> MkInt(1)])])]),
    MkMap([logging |-> MkMap([driver |-> MkStr("json"), options |-> MkMap([o |-> MkStr("1")])]),
           command |-> MkSeq(<<MkStr("run")>>)]),
    MkMap(("x-meta" :> MkMap([a |-> MkStr("1")])) @@
          [logging |-> MkMap([options |-> MkMap([p |-> MkStr("2")])]),
           labels |-> MkMap([m |-> MkStr("2")])]),
    MkMap([ulimits |-> MkMap([nofile |-> MkMap([hard |-> MkInt(2)])]),
           environment |-> MkSeq(<<>>), ports |-> MkSeq(<<MkStr("80")>>)]),
    MkMap([labels |-> MkSeq(<<MkStr("m=2")>>), ports |-> MkSeq(<<>>)]) >>

\* the two spellings of `extends: b`
ExtendsB == << MkStr("b"), MkMap([service |-> MkStr("b")]) >>

HeapIdle == hInput = Null /\ hHeap = <<>> /\ hServices = Null /\ hPhase = "idle"

\* the document {services: {s: {..., extends: b}, b: {...}}} as decoded, and
\* the service s of a later document
HeapStart ==
    /\ \E i, j, l \in 1..Len(ServiceBodies), e \in 1..Len(ExtendsB) :
          hInput = [s     |-> MkMap(Put(ServiceBodies[i].map, "extends", ExtendsB[e])),
                    b     |-> ServiceBodies[j],
                    patch |-> ServiceBodies[l]]
    /\ LET stored == Store(<<>>, MkMap([n \in {"s", "b"} |-> hInput[n]]))
       IN  hHeap = stored.h /\ hServices = stored.val
    /\ hPhase = "start"

\* extends.go:98-116 for the service s, whose base b is in the same file
ExtendOnHeap ==
    /\ hPhase = "start"
    /\ LET services == hHeap[hServices.addr].map
           service  == services["s"]
           x        == ExtendsRef(ValueAt(hHeap, hHeap[service.addr].map["extends"]))
           source   == deepCloneOnHeap(hHeap, services[x.ref])
           merged   == ExtendServiceOnHeap(source.h, source.val, service)
       IN  IF merged.err
           THEN hHeap' = merged.h /\ hPhase' = "failed"
           ELSE /\ hHeap' = SetKey([merged.h EXCEPT ![merged.val.addr].map = Delete(@, "extends")],
                                   hServices, "s", merged.val)
                /\ hPhase' = "extended"
    /\ UNCHANGED <<hInput, hServices, mergeVars, portVars, groupVars, nameVars, inclVars, extVars, trackVars>>

\* loader.go:330: a later document with the service s is merged into the
\* accumulator, which holds the services map of the first
MergeLaterDocument ==
    /\ hPhase = "extended"
    /\ LET cfg    == Store(hHeap, MkMap([n \in {"s"} |-> hInput.patch]))
           merged == mergeYamlOnHeap(cfg.h, hServices, cfg.val, <<"services">>)
       IN  /\ hHeap' = merged.h
           /\ hPhase' = IF merged.err THEN "failed" ELSE "merged"
    /\ UNCHANGED <<hInput, hServices, mergeVars, portVars, groupVars, nameVars, inclVars, extVars, trackVars>>

-----------------------------------------------------------------------------
(* A cycleTracker under any sequence of Add calls (SpecTracker) *)

MaxLoaded == 4

TrackerFiles == {"compose.yml", "/w/base.yml"}
TrackerServices == {"a", "b", "c"}

NoCall == [called |-> FALSE]

\* &cycleTracker{}
TrackerIdle  == ctLoaded = <<>> /\ ctCall = NoCall
TrackerStart == ctLoaded = <<>> /\ ctCall = NoCall

\* ct.Add(filename, service)
Add ==
    /\ \E filename \in TrackerFiles, service \in TrackerServices :
          LET r == cycleTrackerAdd(ctLoaded, filename, service)
          IN  /\ r.err \/ Len(ctLoaded) < MaxLoaded
              /\ ctLoaded' = r.loaded
              /\ ctCall' = [called |-> TRUE, toAdd |-> ServiceRef(filename, service),
                            before |-> ctLoaded, err |-> r.err, lines |-> r.lines]
    /\ UNCHANGED <<mergeVars, portVars, groupVars, nameVars, inclVars, extVars, heapVars>>

-----------------------------------------------------------------------------
(* Specifications *)

vars == <<mergeVars, portVars, groupVars, nameVars, inclVars, extVars, heapVars, trackVars>>

InitMerge == MergeStart /\ PortsIdle /\ GroupIdle /\ NameIdle /\ IncludeIdle /\ ExtendsIdle /\ HeapIdle /\ TrackerIdle
NextMerge == DoMergeYaml
SpecMerge == InitMerge /\ [][NextMerge]_vars

InitEnvironment ==
    EnvStart /\ PortsIdle /\ GroupIdle /\ NameIdle /\ IncludeIdle /\ ExtendsIdle /\ HeapIdle /\ TrackerIdle
NextEnvironment == DoMergeYaml
SpecEnvironment == InitEnvironment /\ [][NextEnvironment]_vars

InitPorts == PortsStart /\ MergeIdle /\ GroupIdle /\ NameIdle /\ IncludeIdle /\ ExtendsIdle /\ HeapIdle /\ TrackerIdle
NextPorts == DoTransformPorts
SpecPorts == InitPorts /\ [][NextPorts]_vars

InitGroup == GroupStart /\ MergeIdle /\ PortsIdle /\ NameIdle /\ IncludeIdle /\ ExtendsIdle /\ HeapIdle /\ TrackerIdle
NextGroup == DoGroupXFields
SpecGroup == InitGroup /\ [][NextGroup]_vars

InitName == NameStart /\ MergeIdle /\ PortsIdle /\ GroupIdle /\ IncludeIdle /\ ExtendsIdle /\ HeapIdle /\ TrackerIdle
NextName == DoLoadWithContext
SpecName == InitName /\ [][NextName]_vars

InitInclude == IncludeStart /\ MergeIdle /\ PortsIdle /\ GroupIdle /\ NameIdle /\ ExtendsIdle /\ HeapIdle /\ TrackerIdle
NextInclude == LoadFindsCycle \/ LoadIncluded \/ LoadReturns
SpecInclude == InitInclude /\ [][NextInclude]_vars

InitExtends == ExtendsStart /\ MergeIdle /\ PortsIdle /\ GroupIdle /\ NameIdle /\ IncludeIdle /\ HeapIdle /\ TrackerIdle
NextExtends ==
    \/ NextDocument \/ VisitService \/ LoaderDeclines \/ LoaderLoads \/ BaseLoaded
    \/ LoadersDone \/ ApplyExtendsReturns \/ MergeDocument \/ LoadYamlModelReturns
SpecExtends == InitExtends /\ [][NextExtends]_vars

\* the loads through base.yml; a call that can take a step takes it, as no
\* step of the code waits
InitCrossFile ==
    CrossFileStart /\ MergeIdle /\ PortsIdle /\ GroupIdle /\ NameIdle /\ IncludeIdle /\ HeapIdle /\ TrackerIdle
SpecExtendsFair == InitCrossFile /\ [][NextExtends]_vars /\ WF_vars(NextExtends)

InitTracker ==
    TrackerStart /\ MergeIdle /\ PortsIdle /\ GroupIdle /\ NameIdle /\ IncludeIdle /\ ExtendsIdle /\ HeapIdle
NextTracker == Add
SpecTracker == InitTracker /\ [][NextTracker]_vars

InitAlias ==
    HeapStart /\ MergeIdle /\ PortsIdle /\ GroupIdle /\ NameIdle /\ IncludeIdle /\ ExtendsIdle /\ TrackerIdle
NextAlias == ExtendOnHeap \/ MergeLaterDocument
SpecAlias == InitAlias /\ [][NextAlias]_vars

-----------------------------------------------------------------------------
(* Claims about the merge engine, under SpecMerge *)

UlimitPattern == <<"services", "*", "ulimits", "*">>

\* C6: at a path matching services.*.ulimits.*, two mappings give their
\* key-merge (a key only in the base keeps its base value, a key of the
\* override takes the override value); otherwise the override replaces the base.
C6_UlimitKeyMerge ==
    (mPhase = "done" /\ Matches(mPath, UlimitPattern)) =>
        IF IsMap(mE) /\ IsMap(mO)
        THEN /\ Succeeded(mResult)
             /\ IsMap(mResult.val)
             /\ DOMAIN mResult.val.map = DOMAIN mE.map \cup DOMAIN mO.map
             /\ \A k \in DOMAIN mE.map \ DOMAIN mO.map :
                   mResult.val.map[k] = mE.map[k]
             /\ \A k \in DOMAIN mO.map : mResult.val.map[k] = mO.map[k]
        ELSE mResult = Ok(mO)

\* the keys the default mapping rule recurses on
RecursedKeys(e, o) == {k \in DOMAIN e.map \cap DOMAIN o.map : ~HasPrefix(k, "x-")}

\* C10: at a path no special rule matches, two mappings give the union of
\* their keys (common keys merged at the extended path, `x-` keys taking the
\* override value), two sequences are concatenated base first, a scalar or
\* null base is replaced, and a mapping or sequence base with an override of
\* another type is an error naming the path.
C10_DefaultRules ==
    (mPhase = "done" /\ SpecialFor(mPath) = "default") =>
        CASE IsMap(mE) /\ IsMap(mO) ->
                LET inner == [k \in RecursedKeys(mE, mO) |->
                                 mergeYaml(mE.map[k], mO.map[k], mPath \o <<k>>)]
                IN  IF \A k \in DOMAIN inner : Succeeded(inner[k])
                    THEN /\ Succeeded(mResult)
                         /\ IsMap(mResult.val)
                         /\ DOMAIN mResult.val.map = DOMAIN mE.map \cup DOMAIN mO.map
                         /\ \A k \in DOMAIN mResult.val.map :
                               mResult.val.map[k] =
                                   IF k \in DOMAIN inner THEN inner[k].val
                                   ELSE IF k \in DOMAIN mO.map THEN mO.map[k]
                                   ELSE mE.map[k]
                    ELSE /\ ~Succeeded(mResult)
                         /\ mResult.paths = UNION {inner[k].paths : k \in DOMAIN inner}
          [] IsSeq(mE) /\ IsSeq(mO) -> mResult = Ok(MkSeq(mE.seq \o mO.seq))
          [] mE.kind \notin {"map", "seq"} -> mResult = Ok(mO)
          [] OTHER -> mResult.err /\ mResult.paths = {mPath}

\* a default-rule merge of two mappings sharing an `x-` key and a plain key
C10_Witness ==
    /\ mPhase = "done" /\ SpecialFor(mPath) = "default"
    /\ IsMap(mE) /\ IsMap(mO)
    /\ Succeeded(mResult)
    /\ \E k \in DOMAIN mE.map \cap DOMAIN mO.map :
          HasPrefix(k, "x-") /\ IsMap(mE.map[k]) /\ IsMap(mO.map[k])
    /\ RecursedKeys(mE, mO) # {}
    /\ DOMAIN mE.map \ DOMAIN mO.map # {}

-----------------------------------------------------------------------------
(* Claims about the ports canonicaliser, under SpecPorts *)

RECURSIVE Expansions(_, _)
\* what the entries from i on stand for: a mapping for itself, a short form
\* for the encoded port configs it parses into
Expansions(entries, i) ==
    IF i > Len(entries) THEN <<>>
    ELSE (IF IsMap(entries[i]) THEN <<entries[i]>>
          ELSE EncodeAll(ParsePortConfig(IF entries[i].kind = "int"
                                         THEN Itoa(entries[i].int)
                                         ELSE entries[i].str).parsed))
         \o Expansions(entries, i + 1)

PortEntryKinds == {"int", "str", "map"}

\* C8: on a sequence of integers, strings and mappings transformPorts fails
\* or returns a sequence of mappings, the mappings passed through and the
\* expansions in input order; on any other value it returns an error.
C8_PortsAreMappings ==
    pPhase = "done" =>
        IF IsSeq(pData) /\ \A i \in 1..Len(pData.seq) : pData.seq[i].kind \in PortEntryKinds
        THEN \/ pResult.err
             \/ /\ IsSeq(pResult.val)
                /\ \A i \in 1..Len(pResult.val.seq) : IsMap(pResult.val.seq[i])
                /\ pResult.val.seq = Expansions(pData.seq, 1)
        ELSE pResult.err

\* a mapping, a range and an integer canonicalised in one call
C8_Witness ==
    /\ pPhase = "done" /\ ~pResult.err
    /\ IsSeq(pData) /\ Len(pData.seq) = MaxPorts
    /\ \E i, j, k \in 1..Len(pData.seq) :
          /\ IsMap(pData.seq[i])
          /\ pData.seq[j] = MkStr("80-81")
          /\ pData.seq[k].kind = "int"
    /\ Len(pResult.val.seq) > Len(pData.seq)

-----------------------------------------------------------------------------
(* Claims about the extension grouper, under SpecGroup *)

RECURSIVE NodeAt(_, _)
\* the node of a tree at a path of mapping keys and sequence indices
NodeAt(node, q) ==
    IF q = <<>> THEN node
    ELSE IF IsMap(node) THEN NodeAt(node.map[Head(q)], Tail(q))
    ELSE NodeAt(node.seq[Atoi(Head(q)) + 1], Tail(q))

\* the top-level mappings whose keys are user-defined entry names
UserDefinedScopes == {userDefinedKeys[i] : i \in 1..Len(userDefinedKeys)}

RECURSIVE ReachedMappings(_, _)
\* the paths of the mappings the recursion reaches from the mapping at q:
\* it goes into every value but those of the `x-` keys it moves
ReachedMappings(node, q) ==
    {q} \cup UNION {
        LET value == node.map[k]
        IN  IF HasPrefix(k, "x-") /\ q \notin UserDefinedScopes THEN {}
            ELSE IF IsMap(value) THEN ReachedMappings(value, Append(q, k))
            ELSE IF IsSeq(value)
            THEN UNION { IF IsMap(value.seq[i])
                         THEN ReachedMappings(value.seq[i], Append(Append(q, k), Itoa(i - 1)))
                         ELSE {} : i \in 1..Len(value.seq) }
            ELSE {} : k \in DOMAIN node.map }

XKeysAt(q) == {k \in DOMAIN NodeAt(gDict, q).map : HasPrefix(k, "x-")}

\* C9: after groupXFieldsIntoExtensions from the root path, an `x-` key
\* directly under services, volumes, networks, secrets or configs is still
\* in place, and an `x-` key of any other mapping the recursion reaches has
\* left that mapping and is, with its value, in the mapping's `extensions`.
C9_XFieldsGrouped ==
    gPhase = "done" =>
        \A q \in ReachedMappings(gDict, <<>>) : \A k \in XKeysAt(q) :
            LET after == NodeAt(gResult, q)
            IN  IF q \in UserDefinedScopes
                THEN HasKey(after, k)
                ELSE /\ ~HasKey(after, k)
                     /\ HasKey(after, Extensions)
                     /\ HasKey(after.map[Extensions], k)
                     /\ after.map[Extensions].map[k] = NodeAt(gDict, q).map[k]

-----------------------------------------------------------------------------
(* Claims about the project name, under SpecName *)

\* lowercase, first character alphanumeric, all characters in [a-z0-9_-]
CanonicalName(s) ==
    /\ Len(s) > 0
    /\ CharIn(SubSeq(s, 1, 1), LowerCase \o Digits)
    /\ \A i \in 1..Len(s) : CharIn(SubSeq(s, i, i), LowerCase \o Digits \o "_-")

\* C4: whenever LoadWithContext returns a project without error, whatever
\* the config files and options, the project name is non-empty, canonical
\* and equal to its own normalisation.
C4_ProjectNameCanonical ==
    (nPhase = "done" /\ nResult.err = "") =>
        /\ nResult.name # ""
        /\ NormalizeProjectName(nResult.name) = nResult.name
        /\ CanonicalName(nResult.name)

\* every file is given by content that parses, with a string or no `name`
NamesReadable ==
    \A i \in 1..Len(nFiles) :
        /\ nFiles[i].Content.state = "yaml"
        /\ HasKey(nFiles[i].Content.tree, "name") => IsStr(nFiles[i].Content.tree.map["name"])

NamedFiles ==
    {i \in 1..Len(nFiles) : /\ HasKey(nFiles[i].Content.tree, "name")
                            /\ nFiles[i].Content.tree.map["name"] # MkStr("")}

\* the last non-empty `name` of the config files, after interpolation
LastNameInterpolated ==
    IF NamedFiles = {} THEN ""
    ELSE LET last == CHOOSE i \in NamedFiles : \A j \in NamedFiles : j <= i
             raw  == nFiles[last].Content.tree.map["name"].str
         IN  IF nOpts.SkipInterpolation THEN raw ELSE Substitute(raw, nEnv)

\* C5: when the name is not set imperatively and the last non-empty `name`
\* of the config files, interpolated, is non-empty but not its own
\* normalisation, projectName fails with "invalid project name".
C5_InvalidNameRejected ==
    (/\ nPhase = "done"
     /\ ~nOpts.projectNameImperativelySet
     /\ NamesReadable
     /\ LastNameInterpolated # ""
     /\ NormalizeProjectName(LastNameInterpolated) # LastNameInterpolated)
        => nResult.err = "invalid project name"

-----------------------------------------------------------------------------
(* Claims about include cycles, under SpecInclude *)

\* C2: include cycles that span several files are detected: every nested
\* load sees all the files of the current include chain, so no file is ever
\* entered a second time on one chain (the load ends with "include cycle
\* detected" first).
C2_IncludeCycleDetected ==
    \A k \in 1..Len(iStack) :
        /\ \A j \in 1..k : \E i \in 1..Len(iStack[k].loaded) :
              iStack[k].loaded[i] = iStack[j].mainFile
        /\ \A j \in 1..(k - 1) : iStack[j].mainFile # iStack[k].mainFile


-----------------------------------------------------------------------------
(* Claims about extends (SpecExtends) *)

\* the document a frame's ApplyExtends was called on, as read from the file
OriginalDoc(frame) == Documents(xFiles, CurrentFile(frame))[frame.docIdx]

\* the service of the same document that service n extends, "" when it
\* extends none, one of another file or one that does not exist
SameFileBase(doc, n) ==
    LET service == ServicesOf(doc)[n]
    IN  IF "extends" \notin DOMAIN service.map THEN ""
        ELSE LET x == ExtendsRef(service.map["extends"])
             IN  IF x.file = Null /\ x.ref \in DOMAIN ServicesOf(doc) THEN x.ref ELSE ""

RECURSIVE Follows(_, _, _)
Follows(doc, n, k) ==
    IF k = 0 \/ n = "" THEN n ELSE Follows(doc, SameFileBase(doc, n), k - 1)

HasExtendsCycle(doc) ==
    /\ HasKey(doc, "services")
    /\ \E n \in DOMAIN ServicesOf(doc) :
          \E k \in 1..Cardinality(DOMAIN ServicesOf(doc)) : Follows(doc, n, k) = n

\* C1: ApplyExtends never returns success for the services of one file whose
\* extends references form a cycle (a extends a; a extends b and b extends a):
\* no call that has returned nil was made on a document with such a cycle.
C1_SameFileCycleReported ==
    \A i \in 1..Len(xStack) :
        xStack[i].phase = "applied" => ~HasExtendsCycle(OriginalDoc(xStack[i]))

\* the first loader of opts.ResourceLoaders that accepts the path
FirstAccepting(path) ==
    CHOOSE i \in 1..Len(xLoaders) :
        /\ Accept(xLoaders[i], xFiles, path)
        /\ \A j \in 1..(i - 1) : ~Accept(xLoaders[j], xFiles, path)

\* C3: for an extends with a file, Load and the nested loadYamlModel happen
\* exactly once, with the first loader that accepts the path, and with no
\* later loader; the base is the one of the last Load of the visit, so it
\* comes from the first accepting loader's file.
C3_FirstAcceptingLoaderOnly ==
    /\ \A i \in 1..Len(xLoads) : xLoads[i].loader = FirstAccepting(xLoads[i].path)
    /\ \A i, j \in 1..Len(xLoads) :
          (xLoads[i].file = xLoads[j].file /\ xLoads[i].service = xLoads[j].service) => i = j

NoExtendsIn(tree) ==
    HasKey(tree, "services") =>
        \A n \in DOMAIN ServicesOf(tree) : ~HasKey(ServicesOf(tree)[n], "extends")

\* C7: once ApplyExtends has returned without error no service of the
\* document holds an `extends` key, and neither the accumulator of
\* loadYamlModel nor the tree it returns has a node at services.*.extends.
C7_NoExtendsSurvives ==
    /\ \A i \in 1..Len(xStack) :
          /\ xStack[i].phase = "applied" => NoExtendsIn(xStack[i].cfg)
          /\ NoExtendsIn(xStack[i].dict)
    /\ xResult.status = "loaded" => NoExtendsIn(xResult.dict)

\* a load that succeeded after an extends from another file and one more
\* extends, each replaced by the merge with its base
C7_Witness ==
    /\ xResult.status = "loaded"
    /\ Len(xLoads) > 0
    /\ Len(xCt) >= 2
    /\ \E n \in DOMAIN ServicesOf(xResult.dict) :
          Cardinality(DOMAIN ServicesOf(xResult.dict)[n].map["labels"].map) >= 2


-----------------------------------------------------------------------------
(* Claims about the environment merge (SpecEnvironment) *)

\* VALUE of a KEY=VALUE entry, as the equivalent sequence would spell it
EnvValue(v) ==
    CASE v.kind = "str"  -> v.str
      [] v.kind = "int"  -> Itoa(v.int)
      [] v.kind = "bool" -> IF v.bool THEN "true" ELSE "false"
      [] OTHER           -> ""

EnvEntryOf(m, k) == IF m[k].kind = "null" THEN k ELSE k \o "=" \o EnvValue(m[k])

IsSortedStrs(q) == \A i \in 1..(Len(q) - 1) : ~StrLess(q[i + 1].str, q[i].str)

\* q is the mapping's KEY=VALUE entries, one per key, sorted ascending
IsSequenceFormOf(q, value) ==
    IF value.kind = "seq" THEN q = value.seq
    ELSE /\ Len(q) = Cardinality(DOMAIN value.map)
         /\ \A i \in 1..Len(q) : q[i].kind = "str"
         /\ IsSortedStrs(q)
         /\ \A e \in {EnvEntryOf(value.map, k) : k \in DOMAIN value.map} :
               Cardinality({i \in 1..Len(q) : q[i].str = e})
                 = Cardinality({k \in DOMAIN value.map : EnvEntryOf(value.map, k) = e})

SequenceLen(value) == IF value.kind = "seq" THEN Len(value.seq) ELSE Cardinality(DOMAIN value.map)

\* C11: at services.*.environment the merge of two operands is the base in
\* sequence form followed by the override in sequence form, a mapping
\* becoming its sorted KEY=VALUE entries and a sequence being kept, so that
\* the entries are those of the equivalent sequences.
C11_EnvironmentConcat ==
    (mPhase = "done" /\ Matches(mPath, <<"services", "*", "environment">>)
       /\ (IsMap(mE) \/ IsSeq(mE)) /\ (IsMap(mO) \/ IsSeq(mO))) =>
        /\ Succeeded(mResult) /\ IsSeq(mResult.val)
        /\ Len(mResult.val.seq) = SequenceLen(mE) + SequenceLen(mO)
        /\ IsSequenceFormOf(SubSeq(mResult.val.seq, 1, SequenceLen(mE)), mE)
        /\ IsSequenceFormOf(SubSeq(mResult.val.seq, SequenceLen(mE) + 1,
                                   Len(mResult.val.seq)), mO)

\* the same with the values of the mappings restricted to strings and empty values
EnvStringsOnly(value) ==
    IsMap(value) => \A k \in DOMAIN value.map : value.map[k].kind \in {"str", "null"}

C11_StringValues ==
    (EnvStringsOnly(mE) /\ EnvStringsOnly(mO)) => C11_EnvironmentConcat


-----------------------------------------------------------------------------
(* Claims about deepClone (SpecAlias) *)

RECURSIVE Reach(_, _)
\* the maps and backing arrays a value reaches
Reach(h, v) ==
    IF ~IsRef(v) THEN {}
    ELSE {v.addr} \cup UNION {Reach(h, Children(h[v.addr])[i]) :
                                 i \in 1..Len(Children(h[v.addr]))}

StoredFor(name) == hHeap[hServices.addr].map[name]

\* C12: once s extends b is resolved and s written back, b still has the
\* value it had before, and no map or slice of s is one of b's, also after a
\* later document has been merged into s in place.
C12_BaseNotAliased ==
    hPhase \in {"extended", "merged"} =>
        /\ ValueAt(hHeap, StoredFor("b")) = hInput.b
        /\ Reach(hHeap, StoredFor("s")) \cap Reach(hHeap, StoredFor("b")) = {}

\* s and b both have a mapping under a key the merge recurses into, the
\* later document changed s in place, and b has maps or slices to share
C12_Witness ==
    /\ hPhase = "merged"
    /\ \E k \in DOMAIN hInput.s.map \cap DOMAIN hInput.b.map :
          IsMap(hInput.s.map[k]) /\ IsMap(hInput.b.map[k])
    /\ ValueAt(hHeap, StoredFor("s")).map # hInput.s.map
    /\ \E k \in DOMAIN hInput.patch.map : k \in DOMAIN hInput.b.map /\ IsMap(hInput.b.map[k])
    /\ Cardinality(Reach(hHeap, StoredFor("b"))) >= 3


-----------------------------------------------------------------------------
(* Claims about the cycle tracker (SpecTracker) *)

InList(ref, list) == \E i \in 1..Len(list) : list[i] = ref

\* C13: the tracker's list never holds a (filename, service) pair twice; Add
\* of a new pair appends it and returns no error; Add of a pair of the list
\* returns the error that names the first entry, each later entry and the
\* pair again, and leaves the list as it was.
C13_TrackerNoDuplicates ==
    /\ \A i, j \in 1..Len(ctLoaded) : ctLoaded[i] = ctLoaded[j] => i = j
    /\ ctCall.called =>
          IF InList(ctCall.toAdd, ctCall.before)
          THEN /\ ctCall.err
               /\ ctCall.lines = Append(ctCall.before, ctCall.toAdd)
               /\ ctLoaded = ctCall.before
          ELSE /\ ~ctCall.err
               /\ ctLoaded = Append(ctCall.before, ctCall.toAdd)

\* a pair in the middle of a list of three or more is added again
C13_Witness ==
    /\ ctCall.called /\ ctCall.err
    /\ Len(ctLoaded) >= 3
    /\ ctLoaded[1] # ctCall.toAdd
    /\ ctLoaded[Len(ctLoaded)] # ctCall.toAdd


-----------------------------------------------------------------------------
(* Claims about the extends graph of a load (SpecExtends) *)

\* the files a path of an `extends` is loaded from
LoadedFrom(path) ==
    {LoaderLoad(xLoaders[i], path) :
        i \in {j \in 1..Len(xLoaders) : Accept(xLoaders[j], xFiles, path)}}

\* the services of a file, over all its documents
ServiceNodes == {ServiceRef(f, n) : f \in DOMAIN xFiles, n \in {"a", "b", "c", "x", "y"}}

\* r.filename has a document where r.service extends a service that is `to`
ExtendsEdge(r, to) ==
    \E d \in 1..Len(xFiles[r.filename]) :
        LET doc == xFiles[r.filename][d]
        IN  /\ HasKey(doc, "services") /\ r.service \in DOMAIN ServicesOf(doc)
            /\ HasKey(ServicesOf(doc)[r.service], "extends")
            /\ LET x == ExtendsRef(ServicesOf(doc)[r.service].map["extends"])
               IN  /\ to.service = x.ref
                   /\ IF x.file = Null THEN to.filename = r.filename
                      ELSE to.filename \in LoadedFrom(x.file.str)

RECURSIVE ReachedIn(_, _)
\* the nodes reached from the set S in 1..k steps
ReachedIn(S, k) ==
    IF k = 0 THEN {}
    ELSE LET next == {t \in ServiceNodes : \E r \in S : ExtendsEdge(r, t)}
         IN  next \cup ReachedIn(next, k - 1)

ExtendsGraphHasCycle ==
    \E r \in ServiceNodes : r \in ReachedIn({r}, Cardinality(ServiceNodes))

\* C14: a "Circular reference" error is returned only when the extends
\* references of the files form a cycle; an acyclic input where a
\* (file, service) is resolved more than once loads without that error.
C14_CycleErrorOnlyForCycles ==
    (xResult.status = "error" /\ xResult.err.kind = "Circular reference") =>
        ExtendsGraphHasCycle


\* every `extends` of the document names a service of the same document and
\* the references form no cycle
SameFileChains(doc) ==
    /\ HasKey(doc, "services")
    /\ \A n \in DOMAIN ServicesOf(doc) :
          HasKey(ServicesOf(doc)[n], "extends") => SameFileBase(doc, n) # ""
    /\ ~HasExtendsCycle(doc)

RECURSIVE InlineCopy(_, _)
\* the service n with the fields of its fully resolved base copied in, its
\* own fields overriding, and `extends` removed
InlineCopy(doc, n) ==
    LET service == ServicesOf(doc)[n]
    IN  IF ~HasKey(service, "extends") THEN service
        ELSE LET merged == ExtendService(InlineCopy(doc, SameFileBase(doc, n)), service)
             IN  MkMap(Delete(merged.val.map, "extends"))

\* C15: whatever the order in which ApplyExtends visits the services, each
\* resolved service is its fully resolved base overridden by its own fields,
\* with `extends` removed (a extends b, b extends c: a has c's fields too).
C15_OrderIndependent ==
    \A i \in 1..Len(xStack) :
        (xStack[i].phase = "applied" /\ SameFileChains(OriginalDoc(xStack[i]))) =>
            \A n \in DOMAIN ServicesOf(xStack[i].cfg) :
                ServicesOf(xStack[i].cfg)[n] = InlineCopy(OriginalDoc(xStack[i]), n)


\* C16: every run of loadYamlModel with its nested loads for extends
\* eventually returns, with a tree or with an error.
C16_ExtendsTerminates == <>(xResult.status # "running")

\* an extends cycle across two files ended in the error that names both
C16_Witness ==
    /\ xResult.status = "error" /\ xResult.err.kind = "Circular reference"
    /\ Len(xLoads) >= 2
    /\ ExtendsGraphHasCycle
    /\ \E i, j \in 1..Len(xResult.err.lines) :
          xResult.err.lines[i].filename # xResult.err.lines[j].filename

==========================================================================
